---- MODULE Spec2Model ----
(***************************************************************************)
(* Model of the dotnet-review MCP server: the tool-call handler, the two   *)
(* scan tools (detect_memory_leaks, review_code_quality), the shared       *)
(* pattern tables and the report formatters.                               *)
(*                                                                         *)
(* Text is modelled as a sequence of fragments ("tokens"): each token is a *)
(* piece of C# text that the patterns of the program either match as a     *)
(* whole or not at all.  A position in a text is counted in tokens, so a   *)
(* token at (1-based) index i occupies the JavaScript string positions     *)
(* [i-1, i) and a match of it ends at lastIndex = i.  "\n" is the line     *)
(* separator that String.prototype.split('\n') cuts at.                    *)
(***************************************************************************)
EXTENDS Integers, Sequences, FiniteSets, TLC

NL == "\n"

\* ---------------------------------------------------------------- helpers

Min(S) == CHOOSE x \in S : \A y \in S : x <= y

RECURSIVE Flatten(_)
Flatten(ss) == IF ss = <<>> THEN <<>> ELSE Head(ss) \o Flatten(Tail(ss))

\* String.prototype.includes(tok) on a text
Includes(s, toks) == \E i \in 1..Len(s) : s[i] \in toks

\* content.split('\n'): always at least one line, the separators removed
RECURSIVE SplitFrom(_, _, _)
SplitFrom(s, i, cur) ==
    IF i > Len(s) THEN <<cur>>
    ELSE IF s[i] = NL THEN <<cur>> \o SplitFrom(s, i + 1, <<>>)
    ELSE SplitFrom(s, i + 1, Append(cur, s[i]))

Split(s) == SplitFrom(s, 1, <<>>)

\* the text of a file whose lines are ls (ls is not empty)
RECURSIVE JoinLines(_)
JoinLines(ls) ==
    IF Len(ls) = 1 THEN ls[1] ELSE ls[1] \o <<NL>> \o JoinLines(Tail(ls))

\* ------------------------------------------------- the pattern tables
\* memoryLeakPatterns (utils/microservice-patterns.js): the fragments each
\* regular expression matches.
eventSubscription(t) == t = "+="
eventUnsubscription(t) == t = "-="
timerCreation(t) == t = "new Timer"
staticFields(t) == t = "static volatile int n ="
\* the literals of detect-memory-leaks.js
asyncVoidLiteral(t) == t = "async void"
implementsIDisposable(t) == t = ": IDisposable"
\* content.includes("Dispose()")
DisposeCallToks == {"Dispose()"}
\* content.includes("Dispose"): every fragment that holds the word
DisposeWordToks == {"Dispose()", "Dispose(true)", ": IDisposable"}

\* antiPatterns (utils/microservice-patterns.js) and the literals of
\* scanFileForQuality
emptyCatch(t) == t = "catch () {}"
genericCatch(t) == t = "catch (Exception e)"
syncOverAsync(t) == t = ".Result"
directDbAccessPattern(t) == t = "DbContext"
loopOpen(t) == t = "foreach ("
blockClose(t) == t = "}"
fetchCall(t) == t = "await repo.Get"
WhenAllToks == {"Task.WhenAll"}
\* businessLogicInController.indicator: a declaration "var x = 1;" followed
\* by at least 100 characters; LongBody stands for a block of 100 characters,
\* every other fragment is short.
LongBody == "/* 100 chars */"
indicatorAt(s, i) == s[i] = "var x = 1;" /\ \E j \in (i+1)..Len(s) : s[j] = LongBody

\* microservicePatterns (utils/microservice-patterns.js), tested on a file's
\* path (a segment holds the word) or on its content
controllerPattern(t) == t \in {"YController.cs"}
servicePattern(t) == t \in {"OrderService.cs"}
repositoryPattern(t) == t \in {"OrderRepository.cs"}
\* /Dto$|DTO$/: only at the very end of the text; no path ending in .cs matches
dtoPattern(t) == FALSE
healthCheckPattern(t) == t = "AddHealthChecks"
loggingPattern(t) == t = "ILogger"
pollyPattern(t) == t = "Polly"

\* The regular expressions declared with the g flag and used with .test():
\* each is one object of the module and keeps its lastIndex between calls.
GlobalRegexes ==
    {"staticFields", "timerCreation", "emptyCatch", "genericCatch",
     "indicator", "syncOverAsync",
     "controller", "service", "repository", "dto", "healthCheck", "logging",
     "polly"}

TokenMatches(name, t) ==
    CASE name = "staticFields" -> staticFields(t)
      [] name = "timerCreation" -> timerCreation(t)
      [] name = "emptyCatch" -> emptyCatch(t)
      [] name = "genericCatch" -> genericCatch(t)
      [] name = "syncOverAsync" -> syncOverAsync(t)
      [] name = "controller" -> controllerPattern(t)
      [] name = "service" -> servicePattern(t)
      [] name = "repository" -> repositoryPattern(t)
      [] name = "dto" -> dtoPattern(t)
      [] name = "healthCheck" -> healthCheckPattern(t)
      [] name = "logging" -> loggingPattern(t)
      [] name = "polly" -> pollyPattern(t)
      [] OTHER -> FALSE

\* does regex `name` match s starting at token i, and where does the match end
MatchAt(name, s, i) ==
    IF name = "indicator" THEN indicatorAt(s, i) ELSE TokenMatches(name, s[i])

\* [\s\S]{100,} is greedy: the indicator's match runs to the end of the text
MatchEnd(name, s, i) == IF name = "indicator" THEN Len(s) ELSE i

\* RegExp.prototype.test of a g-flagged regex: the search starts at lastIndex;
\* a match leaves lastIndex at its end, a failure resets lastIndex to 0.
RegExpTest(name, s, li) ==
    LET from == li[name]
        cand == {i \in (from + 1)..Len(s) : MatchAt(name, s, i)}
    IN  IF cand = {}
        THEN [found |-> FALSE, li |-> [li EXCEPT ![name] = 0]]
        ELSE [found |-> TRUE,
              li |-> [li EXCEPT ![name] = MatchEnd(name, s, Min(cand))]]

\* String.prototype.match of a g-flagged regex returns all matches from
\* position 0 (lastIndex is reset first and is 0 afterwards); the program
\* uses only their number.
RECURSIVE subMatches(_)
subMatches(s) ==
    IF s = <<>> THEN 0
    ELSE (IF eventSubscription(Head(s)) THEN 1 ELSE 0) + subMatches(Tail(s))

RECURSIVE unsubMatches(_)
unsubMatches(s) ==
    IF s = <<>> THEN 0
    ELSE (IF eventUnsubscription(Head(s)) THEN 1 ELSE 0) + unsubMatches(Tail(s))

ZeroIndex == [r \in GlobalRegexes |-> 0]

\* ------------------------------------------------------------- issues
\* An issue without a line property carries NoLine.
NoLine == 0

Msg(text) == [text |-> text, args |-> <<>>]

Issue(file, line, severity, type, message) ==
    [file |-> file, line |-> line, severity |-> severity, type |-> type,
     message |-> message]

\* ------------------------------------------------- scanFileForLeaks
\* a comparison that also fires on equal counts
EventLeakFires_Mut(subs, unsubs) == subs >= unsubs

\* line 55: the count comparison of Check 1
EventLeakFires(subs, unsubs) == subs > unsubs

EventLeakMessage(subs, unsubs) ==
    [text |-> "Found {0} event subscriptions (+=) but only {1} unsubscriptions (-=)",
     args |-> <<subs, unsubs>>]

\* the loop index taken as the line number
LeakLineNo_Mut(i) == i

\* line: i + 1, for the 0-based loop index i
LeakLineNo(i) == i + 1

\* Check 4's guard on a line on which timerCreation.test succeeded
TimerIssueFires(content) == ~Includes(content, DisposeWordToks)

\* the for loop of lines 76-111, from index i on, with the regexes' lastIndex li
RECURSIVE LeakLoop(_, _, _, _, _, _)
LeakLoop(content, lines, filename, i, li, acc) ==
    IF i >= Len(lines) THEN [issues |-> acc, li |-> li]
    ELSE
      LET line == lines[i + 1]
          t1 == RegExpTest("staticFields", line, li)
          a1 == IF t1.found
                THEN Append(acc, Issue(filename, LeakLineNo(i), "Medium",
                                       "Static State", Msg("Static mutable field detected")))
                ELSE acc
          t2 == RegExpTest("timerCreation", line, t1.li)
          a2 == IF t2.found /\ TimerIssueFires(content)
                THEN Append(a1, Issue(filename, LeakLineNo(i), "High",
                                      "Unmanaged Resource", Msg("Timer created")))
                ELSE a1
          a3 == IF \E k \in 1..Len(line) : asyncVoidLiteral(line[k])
                THEN Append(a2, Issue(filename, LeakLineNo(i), "High",
                                      "Async Void", Msg("Avoid 'async void'")))
                ELSE a2
      IN  LeakLoop(content, lines, filename, i + 1, t2.li, a3)

scanFileForLeaks(content, lines, filename, li) ==
    LET subs == subMatches(content)
        unsubs == unsubMatches(content)
        c1 == IF EventLeakFires(subs, unsubs)
              THEN <<Issue(filename, NoLine, "Medium", "Event Handler Leak",
                           EventLeakMessage(subs, unsubs))>>
              ELSE <<>>
        c2 == IF (\E k \in 1..Len(content) : implementsIDisposable(content[k]))
                 /\ ~Includes(content, DisposeCallToks)
              THEN Append(c1, Issue(filename, NoLine, "High", "Missing Dispose",
                                    Msg("Class implements IDisposable but no Dispose()")))
              ELSE c1
    IN  LeakLoop(content, lines, filename, 0, li, c2)

\* ------------------------------------------------- scanFileForQuality
\* the tracker with the closing brace handled before the loop keyword
DepthAfter_Mut(depth, line) ==
    LET closed == IF Len(line) > 0 /\ blockClose(line[1]) /\ depth > 0
                  THEN depth - 1 ELSE depth
    IN  IF \E k \in 1..Len(line) : loopOpen(line[k]) THEN closed + 1 ELSE closed

\* lines 174-179: the loop depth after a line, from the depth before it
DepthAfter(depth, line) ==
    LET opened == IF \E k \in 1..Len(line) : loopOpen(line[k])
                  THEN depth + 1 ELSE depth
    IN  IF Len(line) > 0 /\ blockClose(line[1])
        THEN (IF opened > 0 THEN opened - 1 ELSE opened)
        ELSE opened

\* the heuristic without its loop-depth guard
NPlusOneFires_Mut(depth, line) ==
    /\ \E k \in 1..Len(line) : fetchCall(line[k])
    /\ ~Includes(line, WhenAllToks)

\* lines 181-183: the N+1 heuristic on a line, at the depth after the line
NPlusOneFires(depth, line) ==
    /\ depth > 0
    /\ \E k \in 1..Len(line) : fetchCall(line[k])
    /\ ~Includes(line, WhenAllToks)

QualityLineNo(i) == i + 1

\* the for loop of lines 171-193; depths records loopDepth after each line
RECURSIVE QualityLoop(_, _, _, _, _, _)
QualityLoop(lines, filename, i, loopDepth, acc, depths) ==
    IF i >= Len(lines) THEN [issues |-> acc, depths |-> depths]
    ELSE
      LET line == lines[i + 1]
          d == DepthAfter(loopDepth, line)
          a == IF NPlusOneFires(d, line)
               THEN Append(acc, Issue(filename, QualityLineNo(i), "High",
                                      "Performance / N+1 Problem",
                                      Msg("Database call detected inside a loop")))
               ELSE acc
      IN  QualityLoop(lines, filename, i + 1, d, a, Append(depths, d))

\* antiPatterns.businessLogicInController.pattern (/Controller/) on a file name
ControllerNames == {"YController.cs"}
IsControllerName(filename) == filename \in ControllerNames

scanFileForQuality(content, lines, filename, li) ==
    LET loop == QualityLoop(lines, filename, 0, 0, <<>>, <<>>)
        t1 == RegExpTest("emptyCatch", content, li)
        a1 == IF t1.found
              THEN Append(loop.issues, Issue(filename, NoLine, "Medium",
                          "Empty Catch Block", Msg("Empty catch block detected")))
              ELSE loop.issues
        t2 == RegExpTest("genericCatch", content, t1.li)
        a2 == IF t2.found
              THEN Append(a1, Issue(filename, NoLine, "Low",
                          "Generic Exception Catch", Msg("Catching 'Exception' is too broad")))
              ELSE a1
        ctl == IsControllerName(filename)
        t3 == IF ctl THEN RegExpTest("indicator", content, t2.li)
              ELSE [found |-> FALSE, li |-> t2.li]
        a3 == IF t3.found
              THEN Append(a2, Issue(filename, NoLine, "Medium",
                          "Architecture / Separation of Concerns",
                          Msg("Controller methods should be thin")))
              ELSE a2
        a4 == IF ctl /\ \E k \in 1..Len(content) : directDbAccessPattern(content[k])
              THEN Append(a3, Issue(filename, NoLine, "High",
                          "Architecture / Database Access",
                          Msg("Controllers should not access DbContext directly")))
              ELSE a3
        t5 == RegExpTest("syncOverAsync", content, t3.li)
        a5 == IF t5.found
              THEN Append(a4, Issue(filename, NoLine, "High",
                          "Async / Sync-over-Async", Msg("Blocking wait on Task detected")))
              ELSE a4
    IN  [issues |-> a5, li |-> t5.li, depths |-> loop.depths]

\* ------------------------------------------------------- the reporters
\* A report is the sequence of its pieces, in the order they are appended.
\* the keys of the grouping object, in insertion order
RECURSIVE GroupKeys_Mut(_, _, _)
GroupKeys_Mut(issues, field, seen) ==
    IF issues = <<>> THEN seen
    ELSE LET k == Head(issues)[field]
         IN  GroupKeys_Mut(Tail(issues), field,
                           IF \E j \in 1..Len(seen) : seen[j] = k THEN seen
                           ELSE <<k>> \o seen)

RECURSIVE GroupKeys(_, _, _)
GroupKeys(issues, field, seen) ==
    IF issues = <<>> THEN seen
    ELSE LET k == Head(issues)[field]
         IN  GroupKeys(Tail(issues), field,
                       IF \E j \in 1..Len(seen) : seen[j] = k THEN seen
                       ELSE Append(seen, k))

RECURSIVE SelectBy(_, _, _)
SelectBy(issues, field, k) ==
    IF issues = <<>> THEN <<>>
    ELSE (IF Head(issues)[field] = k THEN <<Head(issues)>> ELSE <<>>)
         \o SelectBy(Tail(issues), field, k)

LeakCleanBanner == << <<"## Memory Leak Analysis passed!">> >>

LeakIssueLine(issue) ==
    <<"-", issue.severity, issue.type, issue.line, issue.message>>

RECURSIVE LeakGroups(_, _)
LeakGroups(keys, issues) ==
    IF keys = <<>> THEN <<>>
    ELSE LET own == SelectBy(issues, "file", Head(keys))
         IN  << <<"###", Head(keys)>> >>
             \o [j \in 1..Len(own) |-> LeakIssueLine(own[j])]
             \o LeakGroups(Tail(keys), issues)

\* a reporter whose empty test is off by one
formatReport_Mut(issues) ==
    IF Len(issues) <= 1 THEN LeakCleanBanner
    ELSE << <<"# Memory Leak Analysis Report">> >>
         \o LeakGroups(GroupKeys(issues, "file", <<>>), issues)

formatReport(issues) ==
    IF Len(issues) = 0 THEN LeakCleanBanner
    ELSE << <<"# Memory Leak Analysis Report">> >>
         \o LeakGroups(GroupKeys(issues, "file", <<>>), issues)

QualityCleanBanner == << <<"## Code Quality Review passed!">> >>

\* issue.line || "?": an issue without a line is rendered with NoLine for "?"
QualityIssueLine(issue) == <<"-", issue.file, issue.line, issue.message>>

RECURSIVE QualityGroups(_, _)
QualityGroups(keys, issues) ==
    IF keys = <<>> THEN <<>>
    ELSE LET own == SelectBy(issues, "type", Head(keys))
         IN  << <<"###", Head(keys)>> >>
             \o [j \in 1..Len(own) |-> QualityIssueLine(own[j])]
             \o QualityGroups(Tail(keys), issues)

formatQualityReport(issues) ==
    IF Len(issues) = 0 THEN QualityCleanBanner
    ELSE << <<"# Code Quality & Performance Report">> >>
         \o QualityGroups(GroupKeys(issues, "type", <<>>), issues)

\* ------------------------------------------------------ the file system
\* A path is the sequence of its segments.  AllFiles is every file there is,
\* in the order a directory listing (glob) yields them.
Root == <<"proj">>
Docs == <<"docs">>
Missing == <<"nowhere">>

SourceFiles ==
    << <<"proj", "a", "X.cs">>, <<"proj", "b", "X.cs">>,
       <<"proj", "YController.cs">> >>

AllFiles ==
    SourceFiles \o << <<"proj", "bin", "Z.cs">>, <<"docs", "notes.md">> >>

Range(f) == {f[i] : i \in 1..Len(f)}

\* path.basename
Basename(p) == p[Len(p)]

\* String.prototype.endsWith(".cs") on a path
CsNames == {"X.cs", "YController.cs", "Z.cs"}
EndsWithCs(p) == Basename(p) \in CsNames

IsPrefix(d, p) == Len(d) < Len(p) /\ SubSeq(p, 1, Len(d)) = d

\* fs.stat: stats.isFile(), stats.isDirectory(), or ENOENT
IsFile(p) == p \in Range(AllFiles)
IsDirectory(p) == \E f \in Range(AllFiles) : IsPrefix(p, f)
Exists(p) == IsFile(p) \/ IsDirectory(p)

\* glob("**/*.cs", {cwd, ignore: bin, obj, node_modules, .git})
IgnoredDirs == {"bin", "obj", "node_modules", ".git"}
GlobMatches(dir, f) ==
    /\ IsPrefix(dir, f)
    /\ EndsWithCs(f)
    /\ \A k \in (Len(dir) + 1)..(Len(f) - 1) : f[k] \notin IgnoredDirs

RECURSIVE Glob(_, _)
Glob(dir, all) ==
    IF all = <<>> THEN <<>>
    ELSE (IF GlobMatches(dir, Head(all)) THEN <<Head(all)>> ELSE <<>>)
         \o Glob(dir, Tail(all))

\* findCSharpFiles of a path that exists
findCSharpFiles(dirPath) ==
    IF IsFile(dirPath)
    THEN (IF EndsWithCs(dirPath) THEN <<dirPath>> ELSE <<>>)
    ELSE Glob(dirPath, AllFiles)

\* ------------------------------------------------------------ the tools
ScanTools == {"detect_memory_leaks", "review_code_quality"}
ProjectTools == {"analyze_microservice", "check_dependencies"}
ToolNames == ScanTools \cup {"no_such_tool"}
AllToolNames == ToolNames \cup ProjectTools

\* the scan of one file by a tool: its issues and the regexes' lastIndex after
ScanFile(name, content, filename, li) ==
    IF name = "detect_memory_leaks"
    THEN LET r == scanFileForLeaks(content, Split(content), filename, li)
         IN  [issues |-> r.issues, li |-> r.li, depths |-> <<>>]
    ELSE scanFileForQuality(content, Split(content), filename, li)

Format(name, issues) ==
    IF name = "detect_memory_leaks" THEN formatReport(issues)
    ELSE formatQualityReport(issues)

\* the value a tool returns: { content: [{ type: "text", text }] }
Success(name, issues) == [isError |-> FALSE, text |-> Format(name, issues)]

FailurePrefix(name) ==
    CASE name = "detect_memory_leaks" -> "Memory leak detection failed"
      [] name = "review_code_quality" -> "Code quality review failed"
      [] name = "analyze_microservice" -> "Microservice analysis failed"
      [] OTHER -> "Dependency check failed"

\* the tool's catch rethrows with its prefix, the handler's catch answers
\* `Error executing tool ${name}: ${error.message}` with isError: true
Failure(name, message, cause, path) ==
    [isError |-> TRUE,
     text |-> << <<"Error executing tool", name, ":", message, cause, path>> >>]

\* ------------------------------------------------------------ the state
Slots == {1, 2}
MaxUnreadable == 1
MaxLines == 3
MaxScans == 2

VARIABLES
    fs,         \* file path -> [content, readable]
    lastIndex,  \* g-flagged regex -> its lastIndex (module state)
    pc,         \* slot -> where the call is: "idle", the await it is at, "done"
    req,        \* slot -> the request's [name, path]
    files,      \* slot -> the tool's files
    idx,        \* slot -> number of files of the for loop already scanned
    issues,     \* slot -> the tool's issues
    emitted,    \* slot -> the fileIssues of each file scanned, in order
    result,     \* slot -> the handler's answer
    overlap,    \* has some call started while another was in flight
    unit,       \* a file given to the scan functions directly
    runs,       \* what each scan of unit produced, in order
    analysis    \* slot -> the analysis object of analyzeMicroservice

vars == <<fs, lastIndex, pc, req, files, idx, issues, emitted, result,
          overlap, unit, runs, analysis>>

\* file contents of the server's runs
CleanText == <<"x">>
TimerText ==
    JoinLines(<< <<"new Timer", "catch () {}">>, <<"async void", "new Timer">> >>)
LoopText ==
    JoinLines(<< <<"foreach (", "+=">>, <<"await repo.Get", "+=">>,
                 <<"}", "-=">> >>)
Pool == {CleanText, TimerText, LoopText}

NoResult == [isError |-> FALSE, text |-> <<>>]
NoRequest == [name |-> "", path |-> <<>>]
NoUnit == [tool |-> "", content |-> <<>>, filename |-> ""]

\* the analysis object as analyzeMicroservice creates it
NoAnalysis ==
    [projectType |-> "Unknown", targetFramework |-> "Unknown",
     controllers |-> <<>>, services |-> <<>>, repositories |-> <<>>,
     dtos |-> <<>>, healthChecks |-> FALSE, logging |-> FALSE,
     containerization |-> FALSE, resilience |-> FALSE]

InitCalls ==
    /\ lastIndex = ZeroIndex
    /\ pc = [c \in Slots |-> "idle"]
    /\ req = [c \in Slots |-> NoRequest]
    /\ files = [c \in Slots |-> <<>>]
    /\ idx = [c \in Slots |-> 0]
    /\ issues = [c \in Slots |-> <<>>]
    /\ emitted = [c \in Slots |-> <<>>]
    /\ result = [c \in Slots |-> NoResult]
    /\ overlap = FALSE
    /\ runs = <<>>
    /\ analysis = [c \in Slots |-> NoAnalysis]

FileSystem(texts, unreadable) ==
    [p \in Range(AllFiles) |->
        IF \E k \in 1..Len(SourceFiles) : SourceFiles[k] = p
        THEN LET k == CHOOSE k \in 1..Len(SourceFiles) : SourceFiles[k] = p
             IN  [content |-> texts[k], readable |-> k \notin unreadable]
        ELSE [content |-> CleanText, readable |-> TRUE]]

Init ==
    /\ InitCalls
    /\ unit = NoUnit
    /\ \E texts \in [1..Len(SourceFiles) -> Pool] :
       \E unreadable \in SUBSET (1..Len(SourceFiles)) :
          /\ Cardinality(unreadable) <= MaxUnreadable
          /\ fs = FileSystem(texts, unreadable)

\* ------------------------------------------------------------ the server
Targets == Range(SourceFiles) \cup {Root, Docs, Missing}

InFlight(c) == pc[c] \notin {"idle", "done"}

\* the handler ends: the tool returned, or threw and the handler caught it
Finish(c, answer) ==
    /\ pc' = [pc EXCEPT ![c] = "done"]
    /\ result' = [result EXCEPT ![c] = answer]

\* the CallToolRequestSchema handler is entered; a tool runs up to its first
\* await (fs.stat), a name that is no tool's throws "Unknown tool"
CallTool(c, name, path) ==
    /\ pc[c] = "idle"
    /\ \A d \in Slots : d < c => pc[d] # "idle"
    /\ req' = [req EXCEPT ![c] = [name |-> name, path |-> path]]
    /\ overlap' = (overlap \/ \E d \in Slots : InFlight(d))
    /\ IF name \in ScanTools
       THEN /\ pc' = [pc EXCEPT ![c] = "stat"]
            /\ UNCHANGED result
       ELSE IF name \in ProjectTools
       THEN /\ pc' = [pc EXCEPT ![c] = "pstat"]
            /\ UNCHANGED result
       ELSE Finish(c, [isError |-> TRUE,
                       text |-> << <<"Error executing tool", name, ":",
                                     "Unknown tool", name, path>> >>])
    /\ UNCHANGED <<fs, lastIndex, files, idx, issues, emitted, unit, runs, analysis>>

\* fs.stat(targetPath) settles
Stat(c) ==
    /\ pc[c] = "stat"
    /\ LET path == req[c].path
       IN  IF ~Exists(path)
           THEN /\ Finish(c, Failure(req[c].name, FailurePrefix(req[c].name),
                                     "ENOENT", path))
                /\ UNCHANGED files
           ELSE IF IsFile(path)
           THEN /\ files' = [files EXCEPT ![c] = <<path>>]
                /\ pc' = [pc EXCEPT ![c] = "read"]
                /\ UNCHANGED result
           ELSE /\ pc' = [pc EXCEPT ![c] = "find"]
                /\ UNCHANGED <<files, result>>
    /\ UNCHANGED <<fs, lastIndex, req, idx, issues, emitted, overlap, unit, runs, analysis>>

\* a tool that takes an empty listing for a failure
FindFiles_Mut(c) ==
    /\ pc[c] = "find"
    /\ LET found == findCSharpFiles(req[c].path)
       IN  /\ files' = [files EXCEPT ![c] = found]
           /\ IF found = <<>>
              THEN Finish(c, Failure(req[c].name, FailurePrefix(req[c].name),
                                     "No C# files found", req[c].path))
              ELSE /\ pc' = [pc EXCEPT ![c] = "read"]
                   /\ UNCHANGED result
    /\ UNCHANGED <<fs, lastIndex, req, idx, issues, emitted, overlap, unit, runs, analysis>>

\* findCSharpFiles(targetPath) settles; with no file the loop is skipped and
\* the tool returns at once
FindFiles(c) ==
    /\ pc[c] = "find"
    /\ LET found == findCSharpFiles(req[c].path)
       IN  /\ files' = [files EXCEPT ![c] = found]
           /\ IF found = <<>>
              THEN Finish(c, Success(req[c].name, issues[c]))
              ELSE /\ pc' = [pc EXCEPT ![c] = "read"]
                   /\ UNCHANGED result
    /\ UNCHANGED <<fs, lastIndex, req, idx, issues, emitted, overlap, unit, runs, analysis>>

\* fs.readFile(file) settles: the file is scanned, its issues are pushed, and
\* after the last file the report is returned; a failed read is thrown to the
\* tool's catch
ReadFile(c) ==
    /\ pc[c] = "read"
    /\ LET file == files[c][idx[c] + 1]
           name == req[c].name
       IN  IF ~fs[file].readable
           THEN /\ Finish(c, Failure(name, FailurePrefix(name), "EACCES", file))
                /\ UNCHANGED <<lastIndex, idx, issues, emitted>>
           ELSE LET r == ScanFile(name, fs[file].content, Basename(file), lastIndex)
                    all == issues[c] \o r.issues
                IN  /\ lastIndex' = r.li
                    /\ issues' = [issues EXCEPT ![c] = all]
                    /\ emitted' = [emitted EXCEPT ![c] = Append(@, r.issues)]
                    /\ idx' = [idx EXCEPT ![c] = @ + 1]
                    /\ IF idx[c] + 1 = Len(files[c])
                       THEN Finish(c, Success(name, all))
                       ELSE UNCHANGED <<pc, result>>
    /\ UNCHANGED <<fs, req, files, overlap, unit, runs, analysis>>

Next ==
    \/ \E c \in Slots, name \in ToolNames, path \in Targets : CallTool(c, name, path)
    \/ \E c \in Slots : Stat(c)
    \/ \E c \in Slots : FindFiles(c)
    \/ \E c \in Slots : ReadFile(c)

Spec == Init /\ [][Next]_vars

\* --------------------------------------- the scan functions on one file
\* the lines a file given to a scan function is made of
LeakLines ==
    { <<"x">>, <<"+=", "+=">>, <<"-=", "+=">>, <<"-=">>, <<"new Timer">>,
      <<"x", "new Timer">>, <<"static volatile int n =">>, <<"async void">>,
      <<": IDisposable">>, <<"Dispose()">> }

QualityLines ==
    { <<"x">>, <<"foreach (">>, <<"}">>, <<"await repo.Get">>,
      <<"await repo.Get", "Task.WhenAll">>,
      <<"foreach (", "foreach (", "await repo.Get">>, <<"}", "foreach (">>,
      <<"catch () {}", ".Result">>, <<"var x = 1;", "DbContext", LongBody>> }

LinesOf(tool) == IF tool = "detect_memory_leaks" THEN LeakLines ELSE QualityLines

NamesOf(tool) ==
    IF tool = "detect_memory_leaks" THEN {"X.cs"} ELSE {"X.cs", "YController.cs"}

InitScan ==
    /\ InitCalls
    /\ fs = FileSystem([k \in 1..Len(SourceFiles) |-> CleanText], {})
    /\ \E tool \in ScanTools, n \in 1..MaxLines :
       \E ls \in [1..n -> LinesOf(tool)], filename \in NamesOf(tool) :
          unit = [tool |-> tool, content |-> JoinLines(ls), filename |-> filename]

\* one more scan of the unit's file, in the same process, and its report
ScanUnit(tool) ==
    /\ unit.tool = tool
    /\ Len(runs) < MaxScans
    /\ LET r == ScanFile(tool, unit.content, unit.filename, lastIndex)
       IN  /\ lastIndex' = r.li
           /\ runs' = Append(runs, [issues |-> r.issues, depths |-> r.depths,
                                    report |-> Format(tool, r.issues)])
    /\ UNCHANGED <<fs, pc, req, files, idx, issues, emitted, result, overlap,
                   unit, analysis>>

ScanLeaks == ScanUnit("detect_memory_leaks")
ScanQuality == ScanUnit("review_code_quality")

NextScan == ScanLeaks \/ ScanQuality

SpecScan == InitScan /\ [][NextScan]_vars

\* ------------------------------------------- the project descriptor tools
\* the descriptor of the project directory; fs holds it only when it exists
ProjFile == <<"proj", "App.csproj">>

\* path.dirname
Dirname(p) == SubSeq(p, 1, Len(p) - 1)

\* fs.stat on the file system with the descriptor
PathExists(p) == Exists(p) \/ (p = ProjFile /\ ProjFile \in DOMAIN fs)

\* glob("*.csproj", {cwd}): the descriptors directly in the directory
GlobCsproj(dir) ==
    IF ProjFile \in DOMAIN fs /\ Dirname(ProjFile) = dir THEN <<ProjFile>> ELSE <<>>

\* a PackageReference: its Include and Version attributes, NoVersion when the
\* Version attribute is absent
NoVersion == ""
Dep(name, version) == [name |-> name, version |-> version]

PackagePool ==
    { Dep("Microsoft.AspNetCore.Mvc", "2.1.0"),
      Dep("Microsoft.AspNetCore.Mvc", "8.0.0"),
      Dep("Microsoft.AspNetCore.Mvc", NoVersion),
      Dep("Microsoft.AspNetCore", "2.2.0"),
      Dep("Newtonsoft.Json", "9.0.1"),
      Dep("System.Data.SqlClient", "2.1.0"),
      Dep("Serilog", "2.10.0") }

\* String.prototype.startsWith on the names and versions of the packages
NameStartsWithAspNetCore(name) ==
    name \in {"Microsoft.AspNetCore", "Microsoft.AspNetCore.Mvc"}
VersionStartsWith(version, prefix) ==
    CASE prefix = "2." -> version \in {"2.1.0", "2.2.0", "2.10.0"}
      [] prefix = "9." -> version \in {"9.0.1"}
      [] OTHER -> FALSE

DepIssue(package, severity, message) ==
    [package |-> package, severity |-> severity, message |-> message]

LegacyMessage == "Old version detected. Upgrade to 13.x or migrate to System.Text.Json."
CompatMessage == "ASP.NET Core 2.x packages are incompatible with .NET 8."
DriverMessage == "Consider using 'Microsoft.Data.SqlClient'."

\* a compatibility rule that looks at the version alone
AspNetCoreIncompatible_Mut(dep) ==
    /\ dep.version # NoVersion
    /\ VersionStartsWith(dep.version, "2.")

\* the compatibility rule for .NET 8
AspNetCoreIncompatible(dep) ==
    /\ NameStartsWithAspNetCore(dep.name)
    /\ dep.version # NoVersion
    /\ VersionStartsWith(dep.version, "2.")

\* the issues one dependency adds, in the order of the three rules
DepIssuesOf(dep) ==
    (IF dep.name = "Newtonsoft.Json" /\ dep.version # NoVersion
        /\ VersionStartsWith(dep.version, "9.")
     THEN <<DepIssue(dep.name, "High", LegacyMessage)>> ELSE <<>>)
    \o (IF AspNetCoreIncompatible(dep)
        THEN <<DepIssue(dep.name, "High", CompatMessage)>> ELSE <<>>)
    \o (IF dep.name = "System.Data.SqlClient"
        THEN <<DepIssue(dep.name, "Medium", DriverMessage)>> ELSE <<>>)

RECURSIVE analyzeDependencies(_)
analyzeDependencies(dependencies) ==
    IF dependencies = <<>> THEN <<>>
    ELSE DepIssuesOf(Head(dependencies)) \o analyzeDependencies(Tail(dependencies))

\* the parsed descriptor: did the parser accept it, its PropertyGroup elements
\* and the PackageReference elements of each of its ItemGroup elements
Tree(parses, propertyGroups, itemGroups) ==
    [parses |-> parses, propertyGroups |-> propertyGroups, itemGroups |-> itemGroups]

\* the dependencies array: every PackageReference of every ItemGroup, in order
Dependencies(tree) == Flatten(tree.itemGroups)

DepIssueLine(issue) == <<"- **", issue.package, "**:", issue.message>>
DepLine(dep) == <<"-", dep.name, dep.version>>

formatDependencyReport(dependencies, found, projectName) ==
    << <<"# Dependency Analysis for", projectName>> >>
    \o (IF Len(dependencies) = 0
        THEN << <<"No package references found.">> >>
        ELSE << <<"Found", Len(dependencies), "packages.">> >>)
    \o (IF Len(found) > 0
        THEN << <<"## Issues Detected">> >>
             \o [k \in 1..Len(found) |-> DepIssueLine(found[k])]
        ELSE << <<"## No obvious dependency issues found.">> >>)
    \o << <<"## Package List">> >>
    \o [k \in 1..Len(dependencies) |-> DepLine(dependencies[k])]

\* checkDependencies once the descriptor is parsed
DependencyCheck(tree, csprojPath) ==
    LET dependencies == Dependencies(tree)
        found == analyzeDependencies(dependencies)
    IN  [dependencies |-> dependencies, issues |-> found,
         report |-> formatDependencyReport(dependencies, found, Basename(csprojPath))]

\* analyzeMicroservice, step 1: the PropertyGroup elements of the descriptor
WebSdks == {"Microsoft.NET.Sdk.Web"}
RECURSIVE AnalyzeGroups(_, _)
AnalyzeGroups(a, groups) ==
    IF groups = <<>> THEN a
    ELSE LET g == Head(groups)
             a1 == IF g.TargetFramework # ""
                   THEN [a EXCEPT !.targetFramework = g.TargetFramework] ELSE a
             a2 == IF g.Sdk # "" /\ g.Sdk \in WebSdks
                   THEN [a1 EXCEPT !.projectType = "Web API"] ELSE a1
         IN  AnalyzeGroups(a2, Tail(groups))

\* content.match(/:.*Controller/) and content.match(/abstract.*class/)
DerivesController(content) == Includes(content, {": ControllerBase"})
AbstractClass(content) == Includes(content, {"abstract class"})

\* analyzeMicroservice, step 2, for one file: the seven g-flagged patterns are
\* tested in this order, each from the lastIndex the test before it left
AnalyzeFile(a, file, content, li) ==
    LET t1 == RegExpTest("controller", file, li)
        t2 == RegExpTest("service", file, t1.li)
        t3 == RegExpTest("repository", file, t2.li)
        t4 == RegExpTest("dto", file, t3.li)
        t5 == RegExpTest("healthCheck", content, t4.li)
        t6 == RegExpTest("logging", content, t5.li)
        t7 == RegExpTest("polly", content, t6.li)
        base == Basename(file)
    IN  [analysis |->
            [a EXCEPT
              !.controllers =
                 IF t1.found \/ (DerivesController(content) /\ ~AbstractClass(content))
                 THEN Append(@, base) ELSE @,
              !.services =
                 IF t2.found /\ ~Includes(file, {"Program.cs"})
                 THEN Append(@, base) ELSE @,
              !.repositories = IF t3.found THEN Append(@, base) ELSE @,
              !.dtos = IF t4.found THEN Append(@, base) ELSE @,
              !.healthChecks = @ \/ t5.found,
              !.logging = @ \/ t6.found,
              !.resilience = @ \/ t7.found],
         li |-> t7.li]

formatOutput(a) ==
    << <<"# Microservice Analysis Report", a.projectType, a.targetFramework,
         Len(a.controllers), Len(a.services), Len(a.repositories), Len(a.dtos),
         a.healthChecks, a.logging, a.containerization, a.resilience,
         Len(a.controllers) > 0 /\ Len(a.services) = 0,
         a.projectType = "Web API" /\ ~a.healthChecks,
         a.targetFramework # "net8.0">> >>

\* a parser that accepts every descriptor
Parses_Mut(content) == TRUE

\* xmlParser.parse(content) returns the tree, or throws
Parses(content) == content.parses

\* parseCsProject's catch rethrows with its own prefix before the tool's does
ParseFailed(cause) == <<"Failed to parse project file", cause>>

\* the directory of the descriptor the call has found
ProjectDir(c) ==
    IF IsDirectory(req[c].path) THEN req[c].path ELSE Dirname(req[c].path)

\* parseCsProject: fs.stat(projectPath) settles
ProjStat(c) ==
    /\ pc[c] = "pstat"
    /\ LET path == req[c].path
           name == req[c].name
       IN  IF ~PathExists(path)
           THEN /\ Finish(c, Failure(name, FailurePrefix(name),
                                     ParseFailed("ENOENT"), path))
                /\ UNCHANGED files
           ELSE IF IsDirectory(path)
           THEN /\ pc' = [pc EXCEPT ![c] = "pglob"]
                /\ UNCHANGED <<files, result>>
           ELSE /\ files' = [files EXCEPT ![c] = <<path>>]
                /\ pc' = [pc EXCEPT ![c] = "pread"]
                /\ UNCHANGED result
    /\ UNCHANGED <<fs, lastIndex, req, idx, issues, emitted, overlap, unit, runs,
                   analysis>>

\* parseCsProject: glob("*.csproj") settles
ProjGlob(c) ==
    /\ pc[c] = "pglob"
    /\ LET csprojFiles == GlobCsproj(req[c].path)
           name == req[c].name
       IN  IF Len(csprojFiles) = 0
           THEN /\ Finish(c, Failure(name, FailurePrefix(name),
                                     ParseFailed("No .csproj file found"),
                                     req[c].path))
                /\ UNCHANGED files
           ELSE /\ files' = [files EXCEPT ![c] = <<csprojFiles[1]>>]
                /\ pc' = [pc EXCEPT ![c] = "pread"]
                /\ UNCHANGED result
    /\ UNCHANGED <<fs, lastIndex, req, idx, issues, emitted, overlap, unit, runs,
                   analysis>>

\* parseCsProject: fs.readFile(filePath) settles and the content is parsed;
\* checkDependencies then runs to its report, analyzeMicroservice to its
\* await of findCSharpFiles
ProjRead(c) ==
    /\ pc[c] = "pread"
    /\ LET filePath == files[c][1]
           name == req[c].name
       IN  IF ~fs[filePath].readable
           THEN Finish(c, Failure(name, FailurePrefix(name),
                                  ParseFailed("EACCES"), filePath))
           ELSE IF ~Parses(fs[filePath].content)
           THEN Finish(c, Failure(name, FailurePrefix(name),
                                  ParseFailed("parser error"), filePath))
           ELSE IF name = "check_dependencies"
           THEN Finish(c, [isError |-> FALSE,
                           text |-> DependencyCheck(fs[filePath].content,
                                                    filePath).report])
           ELSE /\ pc' = [pc EXCEPT ![c] = "afind"]
                /\ UNCHANGED result
    /\ UNCHANGED <<fs, lastIndex, req, files, idx, issues, emitted, overlap, unit,
                   runs, analysis>>

\* analyzeMicroservice: findCSharpFiles(projectDir) settles, the analysis is
\* created and the descriptor's PropertyGroup elements are looked at
ProjFind(c) ==
    /\ pc[c] = "afind"
    /\ LET tree == fs[files[c][1]].content
           sourceFiles == findCSharpFiles(ProjectDir(c))
       IN  /\ files' = [files EXCEPT ![c] = sourceFiles]
           /\ analysis' = [analysis EXCEPT
                              ![c] = AnalyzeGroups(NoAnalysis, tree.propertyGroups)]
           /\ pc' = [pc EXCEPT ![c] = IF sourceFiles = <<>> THEN "access" ELSE "aread"]
    /\ UNCHANGED <<fs, lastIndex, req, idx, issues, emitted, result, overlap, unit,
                   runs>>

\* analyzeMicroservice: fs.readFile(file) settles in the for loop
ProjScan(c) ==
    /\ pc[c] = "aread"
    /\ LET file == files[c][idx[c] + 1]
           name == req[c].name
       IN  IF ~fs[file].readable
           THEN /\ Finish(c, Failure(name, FailurePrefix(name), "EACCES", file))
                /\ UNCHANGED <<lastIndex, idx, analysis>>
           ELSE LET r == AnalyzeFile(analysis[c], file, fs[file].content, lastIndex)
                IN  /\ lastIndex' = r.li
                    /\ analysis' = [analysis EXCEPT ![c] = r.analysis]
                    /\ idx' = [idx EXCEPT ![c] = @ + 1]
                    /\ pc' = [pc EXCEPT ![c] = IF idx[c] + 1 = Len(files[c])
                                               THEN "access" ELSE "aread"]
                    /\ UNCHANGED result
    /\ UNCHANGED <<fs, req, files, issues, emitted, overlap, unit, runs>>

\* analyzeMicroservice: fs.access(Dockerfile) settles, the report is returned
ProjAccess(c) ==
    /\ pc[c] = "access"
    /\ LET a == [analysis[c] EXCEPT
                    !.containerization = IsFile(ProjectDir(c) \o <<"Dockerfile">>)]
       IN  /\ analysis' = [analysis EXCEPT ![c] = a]
           /\ Finish(c, [isError |-> FALSE, text |-> formatOutput(a)])
    /\ UNCHANGED <<fs, lastIndex, req, files, idx, issues, emitted, overlap, unit,
                   runs>>

\* the descriptors a project directory may hold
WebTree ==
    Tree(TRUE, << [TargetFramework |-> "net8.0", Sdk |-> "Microsoft.NET.Sdk.Web"] >>,
         << <<Dep("Microsoft.AspNetCore.Mvc", "2.1.0")>>, <<>> >>)
LibTree == Tree(TRUE, << [TargetFramework |-> "net6.0", Sdk |-> ""] >>, <<>>)
Unparsable == Tree(FALSE, <<>>, <<>>)
ProjectTrees == {WebTree, LibTree, Unparsable}

\* source files of the project runs: a service with logging, a clean file and
\* a controller
AppText == JoinLines(<< <<"ILogger", "AddHealthChecks">>, <<": ControllerBase">> >>)
ProjectTexts == <<AppText, CleanText, TimerText>>

WithDescriptor(files0, tree, readable) ==
    files0 @@ (ProjFile :> [content |-> tree, readable |-> readable])

InitProject ==
    /\ InitCalls
    /\ unit = NoUnit
    /\ \E unreadable \in SUBSET (1..Len(SourceFiles)) :
          /\ Cardinality(unreadable) <= MaxUnreadable
          /\ \/ fs = FileSystem(ProjectTexts, unreadable)
             \/ \E tree \in ProjectTrees, readable \in BOOLEAN :
                   fs = WithDescriptor(FileSystem(ProjectTexts, unreadable),
                                       tree, readable)

\* the paths a call of a tool is given
TargetsOf(name) ==
    IF name \in ProjectTools THEN {Root, Docs, Missing, ProjFile}
    ELSE {Root, Docs, Missing}

NextProject ==
    \/ \E c \in Slots, name \in AllToolNames :
          \E path \in TargetsOf(name) : CallTool(c, name, path)
    \/ \E c \in Slots : Stat(c)
    \/ \E c \in Slots : FindFiles(c)
    \/ \E c \in Slots : ReadFile(c)
    \/ \E c \in Slots : ProjStat(c)
    \/ \E c \in Slots : ProjGlob(c)
    \/ \E c \in Slots : ProjRead(c)
    \/ \E c \in Slots : ProjFind(c)
    \/ \E c \in Slots : ProjScan(c)
    \/ \E c \in Slots : ProjAccess(c)

SpecProject == InitProject /\ [][NextProject]_vars

\* ------------------------------------- the dependency rules on one list
MaxDeps == 3

\* a descriptor whose package references are split over two ItemGroups
InitDeps ==
    /\ InitCalls
    /\ unit = NoUnit
    /\ \E n \in 0..MaxDeps :
       \E ds \in [1..n -> PackagePool], cut \in 0..n :
          fs = WithDescriptor(
                  FileSystem([k \in 1..Len(SourceFiles) |-> CleanText], {}),
                  Tree(TRUE, <<>>, <<SubSeq(ds, 1, cut), SubSeq(ds, cut + 1, n)>>),
                  TRUE)

\* checkDependencies on the parsed descriptor: dependencies, issues, report
CheckDeps ==
    /\ runs = <<>>
    /\ runs' = <<DependencyCheck(fs[ProjFile].content, ProjFile)>>
    /\ UNCHANGED <<fs, lastIndex, pc, req, files, idx, issues, emitted, result,
                   overlap, unit, analysis>>

NextDeps == CheckDeps

SpecDeps == InitDeps /\ [][NextDeps]_vars

\* ===================================================== the properties
\* a tool call run alone in a fresh process: every regex starts at lastIndex 0
RECURSIVE RunFiles(_, _, _, _, _)
RunFiles(name, fl, k, li, acc) ==
    IF k > Len(fl) THEN Success(name, acc)
    ELSE IF ~fs[fl[k]].readable
    THEN Failure(name, FailurePrefix(name), "EACCES", fl[k])
    ELSE LET r == ScanFile(name, fs[fl[k]].content, Basename(fl[k]), li)
         IN  RunFiles(name, fl, k + 1, r.li, acc \o r.issues)

RunAlone(name, path) ==
    IF ~Exists(path) THEN Failure(name, FailurePrefix(name), "ENOENT", path)
    ELSE RunFiles(name, IF IsFile(path) THEN <<path>> ELSE findCSharpFiles(path),
                  1, ZeroIndex, <<>>)

Done(c) == pc[c] = "done" /\ req[c].name \in ScanTools

\* C1: two calls of the same scan tool on the same file, one after the other
\* in the same process, answer with identical reports.
C1_Idempotent ==
    \A c \in Slots, d \in Slots :
        (c < d /\ Done(c) /\ Done(d) /\ ~overlap /\ req[c] = req[d]
           /\ IsFile(req[c].path))
        => result[c] = result[d]

\* C2: the Issue sequence of a finished scan never holds two Issues with the
\* same (file, type, line).
C2_DedupKeysUnique ==
    \A c \in Slots :
        Done(c) =>
            \A i \in 1..Len(issues[c]), j \in 1..Len(issues[c]) :
                i < j =>
                    <<issues[c][i].file, issues[c][i].type, issues[c][i].line>>
                    # <<issues[c][j].file, issues[c][j].type, issues[c][j].line>>

\* C3: a directory scan that meets an unreadable file still answers with a
\* report (not an error) for which every readable file of the listing was
\* scanned.  (The claim's failure note has no place in the tool's answer; the
\* statement here is the part of the claim the answer can express.)
C3_PartialFailure ==
    \A c \in Slots :
        (Done(c) /\ IsDirectory(req[c].path)
           /\ \E f \in Range(findCSharpFiles(req[c].path)) : ~fs[f].readable)
        => /\ ~result[c].isError
           /\ \A f \in Range(findCSharpFiles(req[c].path)) :
                 fs[f].readable => f \in Range(SubSeq(files[c], 1, idx[c]))

\* C4: in a batch scan run in a fresh process with no other call, the Issues
\* of each file are those of that file scanned on its own.
C4_CrossFileIsolation ==
    \A c \in Slots :
        (req[c].name \in ScanTools /\ \A d \in Slots \ {c} : pc[d] = "idle")
        => \A k \in 1..Len(emitted[c]) :
              emitted[c][k] =
                  ScanFile(req[c].name, fs[files[c][k]].content,
                           Basename(files[c][k]), ZeroIndex).issues

\* the fragments a text holds
Count(s, tok) == Cardinality({i \in 1..Len(s) : s[i] = tok})
IssuesOfType(is, type) == {j \in 1..Len(is) : is[j].type = type}

\* C5: every scan by scanFileForLeaks emits exactly one 'Event Handler Leak'
\* Issue, with both counts in its message, when the file holds more += than
\* -=, and none otherwise.
C5_EventLeakCount ==
    unit.tool = "detect_memory_leaks" =>
        \A r \in 1..Len(runs) :
            LET n == Count(unit.content, "+=")
                m == Count(unit.content, "-=")
                hits == IssuesOfType(runs[r].issues, "Event Handler Leak")
            IN  IF n > m
                THEN /\ Cardinality(hits) = 1
                     /\ \A j \in hits :
                           /\ runs[r].issues[j].message.args = <<n, m>>
                           /\ runs[r].issues[j].line = NoLine
                ELSE hits = {}

C5_Witness ==
    /\ unit.tool = "detect_memory_leaks"
    /\ Count(unit.content, "+=") = 3
    /\ Count(unit.content, "-=") = 1
    /\ Len(runs) >= 1
    /\ Cardinality(IssuesOfType(runs[1].issues, "Event Handler Leak")) = 1

\* C6: in scanFileForQuality a line yields exactly one N+1 Issue, carrying
\* its line number, when it holds a fetch call, no Task.WhenAll, and the loop
\* depth at the line is > 0; otherwise (depth 0 included) it yields none.
C6_DepthGatesNPlusOne ==
    unit.tool = "review_code_quality" =>
        \A r \in 1..Len(runs) :
            LET lines == Split(unit.content)
                is == runs[r].issues
                hits == IssuesOfType(is, "Performance / N+1 Problem")
            IN  /\ Len(runs[r].depths) = Len(lines)
                /\ \A j \in hits : is[j].line \in 1..Len(lines)
                /\ \A i \in 1..Len(lines) :
                      Cardinality({j \in hits : is[j].line = i}) =
                          IF /\ runs[r].depths[i] > 0
                             /\ "await repo.Get" \in Range(lines[i])
                             /\ "Task.WhenAll" \notin Range(lines[i])
                          THEN 1 ELSE 0

C6_Witness ==
    /\ unit.tool = "review_code_quality"
    /\ Len(runs) >= 1
    /\ LET lines == Split(unit.content)
       IN  /\ Len(lines) = 3
           /\ lines[1] = <<"await repo.Get">>
           /\ lines[2] = <<"foreach (">>
           /\ lines[3] = <<"await repo.Get">>
           /\ runs[1].depths = <<0, 1, 1>>
           /\ IssuesOfType(runs[1].issues, "Performance / N+1 Problem") # {}
           /\ \A j \in IssuesOfType(runs[1].issues, "Performance / N+1 Problem") :
                 runs[1].issues[j].line = 3

\* the Issue types of the per-line checks
LineTypes ==
    {"Static State", "Unmanaged Resource", "Async Void", "Performance / N+1 Problem"}

\* C7: every Issue of a call names a file scanned by that call, and its line
\* number, when it has one, is at least 1 and at most that file's line count.
C7_IssuesReferToScannedFiles ==
    \A c \in Slots :
        /\ issues[c] = Flatten(emitted[c])
        /\ Len(emitted[c]) = idx[c]
        /\ idx[c] <= Len(files[c])
        /\ \A k \in 1..Len(emitted[c]) :
              \A j \in 1..Len(emitted[c][k]) :
                 LET issue == emitted[c][k][j]
                     n == Len(Split(fs[files[c][k]].content))
                 IN  /\ issue.file = Basename(files[c][k])
                     /\ issue.line = NoLine \/ (1 <= issue.line /\ issue.line <= n)
                     /\ issue.type \in LineTypes => issue.line # NoLine

C7_Witness ==
    \E c \in Slots :
        /\ Done(c) /\ ~result[c].isError /\ req[c].path = Root
        /\ \E k \in 1..Len(emitted[c]) : \E j \in 1..Len(emitted[c][k]) :
              /\ emitted[c][k][j].line = Len(Split(fs[files[c][k]].content))
              /\ emitted[c][k][j].line > 1

\* C8: every call answers as it does when run alone, and once no call is in
\* flight no regex of the module is left with a match cursor.
C8_NoInterference ==
    /\ \A c \in Slots : Done(c) => result[c] = RunAlone(req[c].name, req[c].path)
    /\ (\A c \in Slots : ~InFlight(c)) => lastIndex = ZeroIndex

\* C9: in a file without the word Dispose every timer-construction line gets
\* exactly one 'Unmanaged Resource' Issue with its line number, and in a file
\* with a disposal call there is no such Issue.  (The absence test is read as
\* the program reads it, on the word Dispose.)
C9_TimerVerdict ==
    unit.tool = "detect_memory_leaks" =>
        \A r \in 1..Len(runs) :
            LET lines == Split(unit.content)
                is == runs[r].issues
                hits == IssuesOfType(is, "Unmanaged Resource")
            IN  IF \E t \in DisposeWordToks : Count(unit.content, t) > 0
                THEN hits = {}
                ELSE \A i \in 1..Len(lines) :
                        Cardinality({j \in hits : is[j].line = i}) =
                            IF "new Timer" \in Range(lines[i]) THEN 1 ELSE 0

\* the fragments some pattern of a tool's rules matches
RuleToks(name) ==
    IF name = "detect_memory_leaks"
    THEN {"+=", "-=", "new Timer", "static volatile int n =", "async void",
          ": IDisposable"}
    ELSE {"await repo.Get", "catch () {}", "catch (Exception e)", ".Result",
          "DbContext", "var x = 1;"}

ZeroMatches(name, content) == \A t \in RuleToks(name) : Count(content, t) = 0

CleanBanner(name) ==
    IF name = "detect_memory_leaks"
    THEN << <<"## Memory Leak Analysis passed!">> >>
    ELSE << <<"## Code Quality Review passed!">> >>

\* C10: a report is the clean banner exactly when the Issue sequence is
\* empty, and it is when no scanned file holds a match of any rule's pattern.
C10_CleanBanner ==
    \A c \in Slots :
        (Done(c) /\ ~result[c].isError) =>
            /\ result[c].text = CleanBanner(req[c].name) <=> issues[c] = <<>>
            /\ (\A k \in 1..Len(files[c]) :
                    ZeroMatches(req[c].name, fs[files[c][k]].content))
               => /\ issues[c] = <<>>
                  /\ result[c].text = CleanBanner(req[c].name)

C10_Witness ==
    \E c \in Slots :
        /\ Done(c) /\ ~result[c].isError /\ req[c].path = Root
        /\ Len(files[c]) = 3 /\ idx[c] = 3
        /\ \A k \in 1..3 : ZeroMatches(req[c].name, fs[files[c][k]].content)
        /\ result[c].text = CleanBanner(req[c].name)

\* a directory with no C# file below it that the listing would keep
NoSourceFiles(path) ==
    /\ IsDirectory(path)
    /\ \A f \in Range(AllFiles) :
          (IsPrefix(path, f) /\ Basename(f) \in CsNames)
          => \E k \in (Len(path) + 1)..(Len(f) - 1) : f[k] \in IgnoredDirs

\* C11: a scan of an existing path that yields no source file reads no file
\* and ends with the clean report and zero Issues, not with an error.
C11_NoApplicableFiles ==
    \A c \in Slots :
        (req[c].name \in ScanTools /\ NoSourceFiles(req[c].path)) =>
            /\ pc[c] # "read"
            /\ pc[c] = "done" =>
                  /\ ~result[c].isError
                  /\ issues[c] = <<>>
                  /\ result[c].text = CleanBanner(req[c].name)

C11_Witness ==
    \E c \in Slots :
        /\ Done(c) /\ req[c].path = Docs
        /\ ~result[c].isError
        /\ result[c].text = CleanBanner(req[c].name)

\* the descriptor parseCsProject finds for a path, if it finds one
DescriptorAt(path) ==
    /\ ProjFile \in DOMAIN fs
    /\ path = ProjFile \/ (IsDirectory(path) /\ Dirname(ProjFile) = path)

\* the handler's failure response for tool `name`: isError with its one text
FailsWith(c, cause, path) ==
    /\ result[c].isError
    /\ result[c].text =
          << <<"Error executing tool", req[c].name, ":",
               FailurePrefix(req[c].name), cause, path>> >>

\* C12: a call on a path that does not exist, on a directory without a project
\* descriptor, or on a descriptor the parser rejects ends with the handler's
\* isError response, whose text carries the underlying error message; it never
\* ends with a success report, and every failure is the handler's response.
C12_FatalFailures ==
    \A c \in Slots :
        pc[c] = "done" =>
            LET name == req[c].name
                path == req[c].path
            IN  /\ (name \in ScanTools /\ ~PathExists(path))
                   => FailsWith(c, "ENOENT", path)
                /\ (name \in ProjectTools /\ ~PathExists(path))
                   => FailsWith(c, <<"Failed to parse project file", "ENOENT">>, path)
                /\ (name \in ProjectTools /\ IsDirectory(path) /\ ~DescriptorAt(path))
                   => FailsWith(c, <<"Failed to parse project file",
                                     "No .csproj file found">>, path)
                /\ (name \in ProjectTools /\ DescriptorAt(path)
                    /\ fs[ProjFile].readable /\ ~fs[ProjFile].content.parses)
                   => FailsWith(c, <<"Failed to parse project file",
                                     "parser error">>, ProjFile)
                /\ result[c].isError
                   => /\ Len(result[c].text) = 1
                      /\ result[c].text[1][1] = "Error executing tool"
                      /\ result[c].text[1][2] = name

C12_Witness ==
    /\ ProjFile \in DOMAIN fs
    /\ fs[ProjFile].readable
    /\ ~fs[ProjFile].content.parses
    /\ pc[1] = "done" /\ req[1] = [name |-> "check_dependencies", path |-> Root]
    /\ FailsWith(1, <<"Failed to parse project file", "parser error">>, ProjFile)
    /\ pc[2] = "done" /\ req[2] = [name |-> "analyze_microservice", path |-> Missing]
    /\ FailsWith(2, <<"Failed to parse project file", "ENOENT">>, Missing)

Nth(S, r) == CHOOSE x \in S : Cardinality({y \in S : y < x}) = r - 1

GroupField(name) == IF name = "detect_memory_leaks" THEN "file" ELSE "type"

IssueLine(name, issue) ==
    IF name = "detect_memory_leaks" THEN LeakIssueLine(issue)
    ELSE QualityIssueLine(issue)

\* the positions of a report's group headers, and the group a position is in
Headers(text) == {p \in 2..Len(text) : Len(text[p]) = 2}
GroupAt(text, p) ==
    text[CHOOSE q \in Headers(text) :
            q < p /\ \A q2 \in Headers(text) : q2 < p => q2 <= q][2]

\* a report renders issues in first-seen order: one header per key, headers
\* in the order of each key's first Issue, under each header the Issues of
\* that key in their stored order, every Issue on exactly one line
RendersInOrder(name, is, text) ==
    LET field == GroupField(name)
        hs == Headers(text)
        ls == (2..Len(text)) \ hs
        With(k) == {j \in 1..Len(is) : is[j][field] = k}
        Under(k) == {p \in ls : GroupAt(text, p) = k}
    IN  /\ Cardinality(ls) = Len(is)
        /\ \A p \in ls : \E q \in hs : q < p
        /\ \A j \in 1..Len(is) : \E p \in hs : text[p][2] = is[j][field]
        /\ \A p \in hs : With(text[p][2]) # {}
        /\ \A p \in hs, q \in hs :
              p < q => /\ text[p][2] # text[q][2]
                       /\ Nth(With(text[p][2]), 1) < Nth(With(text[q][2]), 1)
        /\ \A p \in hs :
              LET k == text[p][2]
              IN  /\ Cardinality(Under(k)) = Cardinality(With(k))
                  /\ \A r \in 1..Cardinality(With(k)) :
                        text[Nth(Under(k), r)] = IssueLine(name, is[Nth(With(k), r)])

\* C14: the stored Issues are those of the files in listing order, each
\* file's in emission order, and the report renders them grouped in
\* first-occurrence order, each exactly once.
C14_ReportOrdering ==
    \A c \in Slots :
        req[c].name \in ScanTools =>
            /\ issues[c] = Flatten(emitted[c])
            /\ pc[c] \in {"read", "done"} /\ IsDirectory(req[c].path)
               => files[c] = findCSharpFiles(req[c].path)
            /\ (pc[c] = "done" /\ ~result[c].isError /\ issues[c] # <<>>)
               => RendersInOrder(req[c].name, issues[c], result[c].text)

C14_Witness ==
    \E c \in Slots :
        /\ Done(c) /\ ~result[c].isError /\ req[c].path = Root
        /\ Cardinality(Headers(result[c].text)) >= 2
        /\ Len(issues[c]) > Cardinality(Headers(result[c].text))
        /\ \E k \in 1..Len(emitted[c]) : emitted[c][k] = <<>>

\* C15: in scanFileForLeaks every line that holds a static-field match gets
\* its own 'Static State' Issue, and in a file without the word Dispose every
\* line that holds a timer construction gets its own 'Unmanaged Resource'
\* Issue, each with the line's 1-based index.
C15_PerLineComplete ==
    unit.tool = "detect_memory_leaks" =>
        \A r \in 1..Len(runs) :
            LET lines == Split(unit.content)
                is == runs[r].issues
            IN  \A i \in 1..Len(lines) :
                   /\ "static volatile int n =" \in Range(lines[i])
                      => Cardinality({j \in IssuesOfType(is, "Static State") :
                                         is[j].line = i}) = 1
                   /\ ("new Timer" \in Range(lines[i])
                       /\ \A t \in DisposeWordToks : Count(unit.content, t) = 0)
                      => Cardinality({j \in IssuesOfType(is, "Unmanaged Resource") :
                                         is[j].line = i}) = 1

\* C16: the loop depth of scanFileForQuality starts at 0 in every scan, is
\* never negative, rises by at most 1 per line, stays 0 on a closing line at
\* depth 0, and is unchanged by a line that opens a loop and starts with a
\* closing brace.
C16_DepthBounds ==
    unit.tool = "review_code_quality" =>
        \A r \in 1..Len(runs) :
            LET lines == Split(unit.content)
                ds == runs[r].depths
                before(i) == IF i = 1 THEN 0 ELSE ds[i - 1]
                opens(i) == "foreach (" \in Range(lines[i])
                closes(i) == Len(lines[i]) > 0 /\ lines[i][1] = "}"
            IN  /\ Len(ds) = Len(lines)
                /\ \A i \in 1..Len(lines) :
                      /\ ds[i] >= 0
                      /\ ds[i] <= before(i) + 1
                      /\ (opens(i) /\ ~closes(i)) => ds[i] = before(i) + 1
                      /\ (closes(i) /\ ~opens(i) /\ before(i) = 0) => ds[i] = 0
                      /\ (closes(i) /\ ~opens(i) /\ before(i) > 0)
                         => ds[i] = before(i) - 1
                      /\ (opens(i) /\ closes(i)) => ds[i] = before(i)
                      /\ (~opens(i) /\ ~closes(i)) => ds[i] = before(i)

C16_Witness ==
    /\ unit.tool = "review_code_quality"
    /\ Len(runs) = 2
    /\ Split(unit.content) =
          << <<"}", "foreach (">>, <<"foreach (", "foreach (", "await repo.Get">>,
             <<"}", "foreach (">> >>
    /\ runs[1].depths = <<0, 1, 1>>
    /\ runs[2].depths = <<0, 1, 1>>

====
